---- MODULE Spec2Model ----
(***************************************************************************)
(* Model of src/h445_5_python_ana/util/metis_log.py: the metis log checker. *)
(* One run of check_log: load_db dispatches on the module type, load_caen  *)
(* or load_iseg query the store and decode one entry per loop iteration,   *)
(* check_log converts the time column and plot_cean_log renders the traces.*)
(***************************************************************************)
EXTENDS Integers, Sequences, FiniteSets, TLC

\* ---------------------------------------------------------------- bounds
\* Longest input sequence the store returns for one address.
MaxEntries == 3
\* Longest array inside a payload.
MaxLen == 2
\* Largest decimation factor given to check_log.
MaxReduce == 3

\* ------------------------------------------------------- program constants
\* JST = timezone(timedelta(hours=9)), as seconds east of UTC.
JST == 32400
\* max_channel_number passed by check_log for each family.
CaenChannels == 4
IsegChannels == 6

\* ------------------------------------------------------------- JSON text
\* A payload is a text, modelled as its sequence of lexemes.  A lexeme is a
\* record whose field t is its kind: the punctuation "{" "}" "[" "]" ":" ","
\* or a literal "int", "float", "str", "null".
Punct(c) == [t |-> c]
IntLit(n) == [t |-> "int", n |-> n]
FloatLit(n) == [t |-> "float", n |-> n]
StrLit(s) == [t |-> "str", s |-> s]
NullLit == [t |-> "null"]

\* Python values produced by json.loads.
PyInt(n) == [ty |-> "int", n |-> n]
PyFloat(n) == [ty |-> "float", n |-> n]
PyStr(s) == [ty |-> "str", s |-> s]
PyNone == [ty |-> "NoneType"]
PyList(items) == [ty |-> "list", items |-> items]
PyDict(map) == [ty |-> "dict", map |-> map]

\* The dict with no key.
EmptyMap == [k \in {} |-> PyNone]

ParseFail == [ok |-> FALSE, val |-> PyNone, next |-> 0]
ParseOk(v, n) == [ok |-> TRUE, val |-> v, next |-> n]

RECURSIVE ParseValue(_, _)
RECURSIVE ParseElems(_, _, _)
RECURSIVE ParseMembers(_, _, _)

\* json.loads, recursive descent: the value that starts at lexeme i.
ParseValue(s, i) ==
    IF i > Len(s) THEN ParseFail
    ELSE CASE s[i].t = "int" -> ParseOk(PyInt(s[i].n), i + 1)
           [] s[i].t = "float" -> ParseOk(PyFloat(s[i].n), i + 1)
           [] s[i].t = "str" -> ParseOk(PyStr(s[i].s), i + 1)
           [] s[i].t = "null" -> ParseOk(PyNone, i + 1)
           [] s[i].t = "[" ->
                IF i + 1 <= Len(s) /\ s[i + 1].t = "]"
                THEN ParseOk(PyList(<<>>), i + 2)
                ELSE ParseElems(s, i + 1, <<>>)
           [] s[i].t = "{" ->
                IF i + 1 <= Len(s) /\ s[i + 1].t = "}"
                THEN ParseOk(PyDict(EmptyMap), i + 2)
                ELSE ParseMembers(s, i + 1, EmptyMap)
           [] OTHER -> ParseFail

\* The elements of an array after "[" or ",", up to the closing "]".
ParseElems(s, i, acc) ==
    LET r == ParseValue(s, i) IN
    IF ~r.ok \/ r.next > Len(s) THEN ParseFail
    ELSE IF s[r.next].t = "," THEN ParseElems(s, r.next + 1, Append(acc, r.val))
    ELSE IF s[r.next].t = "]" THEN ParseOk(PyList(Append(acc, r.val)), r.next + 1)
    ELSE ParseFail

\* The members of an object after "{" or ",", up to the closing "}"; a
\* repeated key keeps its last value.
ParseMembers(s, i, map) ==
    IF i + 1 > Len(s) \/ s[i].t # "str" \/ s[i + 1].t # ":" THEN ParseFail
    ELSE LET r == ParseValue(s, i + 2)
             key == s[i].s
             map2 == [k \in (DOMAIN map) \cup {key} |->
                         IF k = key THEN r.val ELSE map[k]]
         IN IF ~r.ok \/ r.next > Len(s) THEN ParseFail
            ELSE IF s[r.next].t = "," THEN ParseMembers(s, r.next + 1, map2)
            ELSE IF s[r.next].t = "}" THEN ParseOk(PyDict(map2), r.next + 1)
            ELSE ParseFail

\* json.loads(json_data): ok = FALSE stands for json.JSONDecodeError (no
\* value, or extra data after the value).
JsonLoads(s) ==
    LET r == ParseValue(s, 1) IN
    IF r.ok /\ r.next = Len(s) + 1 THEN [ok |-> TRUE, val |-> r.val]
    ELSE [ok |-> FALSE, val |-> PyNone]

\* ------------------------------------------------- Python helper semantics
\* An exception: its type and the object its message names.
Exc(type, arg) == [type |-> type, arg |-> arg]
NoExc == Exc("none", "")

\* Strings float() accepts, with the number they denote.
NumericStr == ("7" :> 7)

\* float(x) for one element.
Float(x) ==
    CASE x.ty = "int" -> [ok |-> TRUE, val |-> PyFloat(x.n), exc |-> NoExc]
      [] x.ty = "float" -> [ok |-> TRUE, val |-> PyFloat(x.n), exc |-> NoExc]
      [] x.ty = "str" ->
           IF x.s \in DOMAIN NumericStr
           THEN [ok |-> TRUE, val |-> PyFloat(NumericStr[x.s]), exc |-> NoExc]
           ELSE [ok |-> FALSE, val |-> PyNone, exc |-> Exc("ValueError", x.s)]
      [] OTHER -> [ok |-> FALSE, val |-> PyNone, exc |-> Exc("TypeError", x.ty)]

\* list(map(float, v)): every element is converted, the first failure is
\* raised.  A value that is not iterable raises TypeError.  (Iterating a str
\* or a dict is outside the inputs of this model.)
MapFloat(v) ==
    CASE v.ty = "list" ->
           LET conv == [i \in 1..Len(v.items) |-> Float(v.items[i])]
               bad == {i \in 1..Len(v.items) : ~conv[i].ok}
               first == CHOOSE i \in bad : \A j \in bad : i <= j
           IN IF bad = {}
              THEN [ok |-> TRUE, val |-> [i \in 1..Len(v.items) |-> conv[i].val],
                    exc |-> NoExc]
              ELSE [ok |-> FALSE, val |-> <<>>, exc |-> conv[first].exc]
      [] v.ty \in {"int", "float", "NoneType"} ->
           [ok |-> FALSE, val |-> <<>>, exc |-> Exc("TypeError", v.ty)]

\* Mutant of DictGet: data.get(key), whose default is None.
DictGetNoDefault(data, key) ==
    IF key \in DOMAIN data.map THEN data.map[key] ELSE PyNone

\* data.get(key, []) on a dict.
DictGet(data, key) ==
    IF key \in DOMAIN data.map THEN data.map[key] ELSE PyList(<<>>)

\* datetime.fromtimestamp(timestamp, tz): the instant and the zone's offset.
FromTimestamp(timestamp, utcoffset) ==
    [epoch |-> timestamp, utcoffset |-> utcoffset]

Min2(a, b) == IF a <= b THEN a ELSE b

\* What one pass through the body of the decode loop does: "rows" (the
\* records it appends), "invalid_json" (the except branch) or "raise" (an
\* exception the try statement does not catch).
Appended(recs) == [outcome |-> "rows", records |-> recs, exc |-> NoExc]
Raised(e) == [outcome |-> "raise", records |-> <<>>, exc |-> e]
\* Mutant of InvalidJson: no except clause, json.JSONDecodeError propagates.
InvalidJsonPropagates == Raised(Exc("JSONDecodeError", "json_data"))
\* except json.JSONDecodeError: print the diagnostic and go on.
InvalidJson == [outcome |-> "invalid_json", records |-> <<>>, exc |-> NoExc]

\* min(len(VMON), len(IMON), len(VSET), len(ISET), len(STAT))
CaenMinLen(VMON, IMON, VSET, ISET, STAT) ==
    Min2(Len(VMON), Min2(Len(IMON), Min2(Len(VSET), Min2(Len(ISET), Len(STAT)))))

\* Mutant of CaenRecord: the two setpoint columns exchanged.
CaenRecordSwapped(timestamp, i, VMON, IMON, VSET, ISET, STAT) ==
    [timestamp_utc |-> FromTimestamp(timestamp, 0),
     timestamp_jst |-> FromTimestamp(timestamp, JST),
     CH |-> i,
     VMON |-> VMON[i + 1],
     IMON |-> IMON[i + 1],
     VSET |-> ISET[i + 1],
     ISET |-> VSET[i + 1],
     STAT |-> STAT[i + 1]]

\* The record load_caen appends for channel i (0-based).
CaenRecord(timestamp, i, VMON, IMON, VSET, ISET, STAT) ==
    [timestamp_utc |-> FromTimestamp(timestamp, 0),
     timestamp_jst |-> FromTimestamp(timestamp, JST),
     CH |-> i,
     VMON |-> VMON[i + 1],
     IMON |-> IMON[i + 1],
     VSET |-> VSET[i + 1],
     ISET |-> ISET[i + 1],
     STAT |-> STAT[i + 1]]

\* The body of load_caen's loop for one (timestamp, json_data).
CaenDecode(timestamp, json_data) ==
    LET j == JsonLoads(json_data)
        data == j.val
    IN IF ~j.ok THEN InvalidJson
       ELSE IF data.ty # "dict" THEN Raised(Exc("AttributeError", data.ty))
       ELSE
         LET VMON == MapFloat(DictGet(data, "VMON"))
             IMON == MapFloat(DictGet(data, "IMON"))
             VSET == MapFloat(DictGet(data, "VSET"))
             ISET == MapFloat(DictGet(data, "ISET"))
             STAT == DictGet(data, "STAT")
         IN IF ~VMON.ok THEN Raised(VMON.exc)
            ELSE IF ~IMON.ok THEN Raised(IMON.exc)
            ELSE IF ~VSET.ok THEN Raised(VSET.exc)
            ELSE IF ~ISET.ok THEN Raised(ISET.exc)
            ELSE IF STAT.ty \in {"int", "float", "NoneType"}
                 THEN Raised(Exc("TypeError", STAT.ty))
            ELSE
              LET min_len == CaenMinLen(VMON.val, IMON.val, VSET.val, ISET.val,
                                        STAT.items)
              IN Appended([k \in 1..min_len |->
                    CaenRecord(timestamp, k - 1, VMON.val, IMON.val, VSET.val,
                               ISET.val, STAT.items)])

\* min(len(VMON), len(IMON))
IsegMinLen(VMON, IMON) == Min2(Len(VMON), Len(IMON))

\* Mutant of IsegRecord: channels counted from 1.
IsegRecordOneBased(timestamp, i, VMON, IMON) ==
    [timestamp_utc |-> FromTimestamp(timestamp, 0),
     timestamp_jst |-> FromTimestamp(timestamp, JST),
     CH |-> i + 1,
     VMON |-> VMON[i + 1],
     IMON |-> IMON[i + 1]]

\* The record load_iseg appends for channel i (0-based).
IsegRecord(timestamp, i, VMON, IMON) ==
    [timestamp_utc |-> FromTimestamp(timestamp, 0),
     timestamp_jst |-> FromTimestamp(timestamp, JST),
     CH |-> i,
     VMON |-> VMON[i + 1],
     IMON |-> IMON[i + 1]]

\* The body of load_iseg's loop for one (timestamp, json_data).
IsegDecode(timestamp, json_data) ==
    LET j == JsonLoads(json_data)
        data == j.val
    IN IF ~j.ok THEN InvalidJson
       ELSE IF data.ty # "dict" THEN Raised(Exc("AttributeError", data.ty))
       ELSE
         LET VMON == MapFloat(DictGet(data, "Status.voltageMeasure"))
             IMON == MapFloat(DictGet(data, "Status.currentMeasure"))
         IN IF ~VMON.ok THEN Raised(VMON.exc)
            ELSE IF ~IMON.ok THEN Raised(IMON.exc)
            ELSE
              LET min_len == IsegMinLen(VMON.val, IMON.val)
              IN Appended([k \in 1..min_len |->
                    IsegRecord(timestamp, k - 1, VMON.val, IMON.val)])

\* --------------------------------------------------------- input payloads
\* The texts the store can hold are built from a shape: for each key of the
\* family, how its value is written.
Absent == [k |-> "absent"]
Arr(len) == [k |-> "arr", len |-> len]
Scalar == [k |-> "scalar"]
BadStr == [k |-> "badstr"]
NumStr == [k |-> "numstr"]
NullElem == [k |-> "nullelem"]

CaenKeys == <<"VMON", "IMON", "VSET", "ISET", "STAT">>
IsegKeys == <<"Status.voltageMeasure", "Status.currentMeasure">>

\* The i-th number written under the f-th key: all different, integers and
\* reals alternating.
NumLit(f, i) == IF i % 2 = 1 THEN FloatLit(10 * f + i) ELSE IntLit(10 * f + i)

RECURSIVE Join(_)
\* The lexemes of the items, separated by commas.
Join(items) ==
    IF items = <<>> THEN <<>>
    ELSE IF Len(items) = 1 THEN items[1]
    ELSE items[1] \o <<Punct(",")>> \o Join(Tail(items))

ArrText(elems) == <<Punct("[")>> \o Join([i \in 1..Len(elems) |-> <<elems[i]>>]) \o <<Punct("]")>>

\* The text of the value of the f-th key written as `how`.  A malformed
\* array is a full array whose last element is replaced.
ValueText(f, how) ==
    LET nums(n) == [i \in 1..n |-> NumLit(f, i)]
        last(e) == [nums(MaxLen) EXCEPT ![MaxLen] = e]
    IN CASE how.k = "arr" -> ArrText(nums(how.len))
         [] how.k = "scalar" -> <<IntLit(10 * f)>>
         [] how.k = "badstr" -> ArrText(last(StrLit("abc")))
         [] how.k = "numstr" -> ArrText(last(StrLit("7")))
         [] how.k = "nullelem" -> ArrText(last(NullLit))

\* The text of the object that writes each present key of the shape.
ObjText(keys, shape) ==
    LET present == SelectSeq([f \in 1..Len(keys) |-> f], LAMBDA f : shape[f] # Absent)
        member(f) == <<StrLit(keys[f]), Punct(":")>> \o ValueText(f, shape[f])
    IN <<Punct("{")>> \o Join([m \in 1..Len(present) |-> member(present[m])])
         \o <<Punct("}")>>

\* Shapes: every key a full array; every key one element short or full;
\* one key deviating (shorter, absent or malformed), the others full.
Full(n) == [f \in 1..n |-> Arr(MaxLen)]
NearFull(n) == [1..n -> {Arr(MaxLen - 1), Arr(MaxLen)}]
ValidDeviations == {Arr(l) : l \in 0..(MaxLen - 1)} \cup {Absent}
BadDeviations(keys, f) ==
    IF keys[f] = "STAT" THEN {Scalar} ELSE {Scalar, BadStr, NumStr, NullElem}
\* devs[f]: the ways the f-th key may deviate.
OneOff(keys, devs) ==
    {[Full(Len(keys)) EXCEPT ![f] = d] : <<f, d>> \in
        UNION {{<<g, e>> : e \in devs[g]} : g \in 1..Len(keys)}}

\* Well-formed objects whose present arrays are all valid.
ValidShapes(keys) ==
    NearFull(Len(keys)) \cup OneOff(keys, [f \in 1..Len(keys) |-> ValidDeviations])
      \cup {[f \in 1..Len(keys) |-> Absent]}
\* Well-formed objects with one malformed field.
BadShapes(keys) == OneOff(keys, [f \in 1..Len(keys) |-> BadDeviations(keys, f)])

\* Texts that are no JSON: an object cut before its closing brace, and a
\* value followed by extra data.
Truncated(keys) ==
    LET t == ObjText(keys, Full(Len(keys))) IN SubSeq(t, 1, Len(t) - 1)
ExtraData(keys) == ObjText(keys, Full(Len(keys))) \o <<Punct("}")>>
\* JSON whose top level is no object.
TopLevelList == ArrText(<<IntLit(1), IntLit(2)>>)
TopLevelNumber == <<IntLit(5)>>

\* Payloads that may appear any number of times in one input: a full
\* payload, a ragged one (second key one short) and a text that is no JSON.
CommonPayloads(keys) ==
    {ObjText(keys, Full(Len(keys))),
     ObjText(keys, [Full(Len(keys)) EXCEPT ![2] = Arr(MaxLen - 1)]),
     Truncated(keys)}
\* Payloads of which one input holds at most one.
RarePayloads(keys) ==
    {ObjText(keys, sh) : sh \in ValidShapes(keys) \cup BadShapes(keys)}
      \cup {ExtraData(keys), TopLevelList, TopLevelNumber}

\* The payload sequences of at most MaxEntries entries.
PayloadSeqs(keys) ==
    UNION {
      LET common == [1..n -> CommonPayloads(keys)]
      IN common \cup {[p EXCEPT ![i] = x] :
                        <<p, i, x>> \in common \X (1..n) \X RarePayloads(keys)}
      : n \in 0..MaxEntries}
CaenPayloadSeqs == PayloadSeqs(CaenKeys)
IsegPayloadSeqs == PayloadSeqs(IsegKeys)

\* The result of the query: (timestamp, json_data) rows in ascending order
\* of timestamp (ORDER BY timestamp ASC), consecutive rows `step` apart.
FetchAll(payloads, step) ==
    [i \in 1..Len(payloads) |->
        [timestamp |-> 1700000000 + step * (i - 1), json_data |-> payloads[i]]]

\* ------------------------------------------------------------------ state
VARIABLES
    module_type,    \* the module type check_log is run with
    pc,             \* where the run is: "start", "loop", "loaded", "plot",
                    \* "shown" (chart rendered) or "raised" (ended in exc)
    conn,           \* the sqlite3 connection: "none", "open" or "closed"
    statements,     \* the SQL statements executed on the connection
    rows,           \* cursor.fetchall()
    idx,            \* number of rows the for loop has consumed
    records,        \* the list the loop appends to
    diag,           \* timestamps printed as "Invalid JSON data at timestamp"
    df,             \* the table: not yet bound, None or a DataFrame
    exc,            \* the exception that ended the run
    reduce_factor,  \* the decimation factor plot_cean_log was called with
    traces          \* the traces added to the figure, in order

vars == <<module_type, pc, conn, statements, rows, idx, records, diag, df, exc,
          reduce_factor, traces>>

ModuleTypes == {"caen", "iseg", "mpod"}

Unbound == [kind |-> "unbound", columns |-> {}, rows |-> <<>>]
None == [kind |-> "None", columns |-> {}, rows |-> <<>>]
\* pd.DataFrame(records): the columns are the keys of the records, so a
\* table built from no record has no column.
DataFrame(recs) ==
    [kind |-> "DataFrame",
     columns |-> UNION {DOMAIN recs[i] : i \in 1..Len(recs)},
     rows |-> recs]

Init ==
    /\ module_type \in ModuleTypes
    /\ pc = "start"
    /\ conn = "none"
    /\ statements = <<>>
    /\ rows = <<>>
    /\ idx = 0
    /\ records = <<>>
    /\ diag = <<>>
    /\ df = Unbound
    /\ exc = NoExc
    /\ reduce_factor = 0
    /\ traces = <<>>

\* load_db with 'caen', then load_caen up to the loop: connect, one SELECT,
\* fetchall.
LoadCaen ==
    /\ pc = "start"
    /\ module_type = "caen"
    /\ \E payloads \in CaenPayloadSeqs, step \in {0, 1} :
          rows' = FetchAll(payloads, step)
    /\ conn' = "open"
    /\ statements' = Append(statements, "SELECT")
    /\ records' = <<>>
    /\ idx' = 0
    /\ pc' = "loop"
    /\ UNCHANGED <<module_type, diag, df, exc, reduce_factor, traces>>

\* load_db with 'iseg', then load_iseg up to the loop.
LoadIseg ==
    /\ pc = "start"
    /\ module_type = "iseg"
    /\ \E payloads \in IsegPayloadSeqs, step \in {0, 1} :
          rows' = FetchAll(payloads, step)
    /\ conn' = "open"
    /\ statements' = Append(statements, "SELECT")
    /\ records' = <<>>
    /\ idx' = 0
    /\ pc' = "loop"
    /\ UNCHANGED <<module_type, diag, df, exc, reduce_factor, traces>>

\* load_db with any other module type: neither branch is taken and the
\* function returns None.
LoadOther ==
    /\ pc = "start"
    /\ module_type \notin {"caen", "iseg"}
    /\ df' = None
    /\ pc' = "loaded"
    /\ UNCHANGED <<module_type, conn, statements, rows, idx, records, diag, exc,
                   reduce_factor, traces>>

\* Mutant of Iterate: the new records are put before the old ones.
IteratePrepend(row, r) ==
    /\ idx' = idx + 1
    /\ records' = r.records \o records
    /\ diag' = IF r.outcome = "invalid_json" THEN Append(diag, row.timestamp)
               ELSE diag
    /\ exc' = r.exc
    /\ pc' = IF r.outcome = "raise" THEN "raised" ELSE "loop"
    /\ UNCHANGED <<module_type, conn, statements, rows, df, reduce_factor,
                   traces>>

\* One iteration of a decode loop on `row`, whose body did `r`: the records
\* are appended, or the diagnostic is printed, or the exception leaves the
\* function (and load_db, and check_log) with the connection as it is.
Iterate(row, r) ==
    /\ idx' = idx + 1
    /\ records' = records \o r.records
    /\ diag' = IF r.outcome = "invalid_json" THEN Append(diag, row.timestamp)
               ELSE diag
    /\ exc' = r.exc
    /\ pc' = IF r.outcome = "raise" THEN "raised" ELSE "loop"
    /\ UNCHANGED <<module_type, conn, statements, rows, df, reduce_factor,
                   traces>>

\* load_caen: one iteration of the for loop.
CaenStep ==
    /\ pc = "loop"
    /\ module_type = "caen"
    /\ idx < Len(rows)
    /\ Iterate(rows[idx + 1],
               CaenDecode(rows[idx + 1].timestamp, rows[idx + 1].json_data))

\* load_iseg: one iteration of the for loop.
IsegStep ==
    /\ pc = "loop"
    /\ module_type = "iseg"
    /\ idx < Len(rows)
    /\ Iterate(rows[idx + 1],
               IsegDecode(rows[idx + 1].timestamp, rows[idx + 1].json_data))

\* After the loop: build the table, close the connection, return.
Return ==
    /\ df' = DataFrame(records)
    /\ conn' = "closed"
    /\ pc' = "loaded"
    /\ UNCHANGED <<module_type, statements, rows, idx, records, diag, exc,
                   reduce_factor, traces>>

\* load_caen after its loop.
CaenReturn ==
    /\ pc = "loop"
    /\ module_type = "caen"
    /\ idx = Len(rows)
    /\ Return

\* load_iseg after its loop.
IsegReturn ==
    /\ pc = "loop"
    /\ module_type = "iseg"
    /\ idx = Len(rows)
    /\ Return

\* df["timestamp_jst"]: subscripting None raises TypeError, a column the
\* table does not have raises KeyError.
GetTimeColumn(d) ==
    IF d.kind = "None" THEN Exc("TypeError", "NoneType")
    ELSE IF "timestamp_jst" \notin d.columns THEN Exc("KeyError", "timestamp_jst")
    ELSE NoExc

\* check_log after load_db: df["timestamp_jst"] = pd.to_datetime(...).  The
\* column already holds zone-aware instants, which to_datetime keeps.
ConvertTime ==
    /\ pc = "loaded"
    /\ exc' = GetTimeColumn(df)
    /\ pc' = IF GetTimeColumn(df) = NoExc THEN "plot" ELSE "raised"
    /\ UNCHANGED <<module_type, conn, statements, rows, idx, records, diag, df,
                   reduce_factor, traces>>

\* df[df["CH"] == ch]
Partition(d, ch) == SelectSeq(d.rows, LAMBDA r : r.CH = ch)

\* dfi.iloc[::n]: rows 0, n, 2n, ...
IlocStep(dfi, n) ==
    [k \in 1..((Len(dfi) + n - 1) \div n) |-> dfi[(k - 1) * n + 1]]

Column(dfi, name) == [k \in 1..Len(dfi) |-> dfi[k][name]]

\* The rows a trace is drawn from: dfi_reduced is computed and the
\* go.Scatter call reads dfi.
Plotted(dfi, dfi_reduced) == dfi

\* One go.Scatter added to the figure.
Scatter(dfi, col, i, panel) ==
    [name |-> <<col, i>>, row |-> panel,
     x |-> Column(dfi, "timestamp_jst"), y |-> Column(dfi, col)]

\* The traces plot_cean_log adds: VMON of every channel in panel 1, then
\* IMON of every channel in panel 2.
Figure(d, n, max_channel_number) ==
    LET dfs == [c \in 1..max_channel_number |-> Partition(d, c - 1)]
        trace(col, panel) ==
            [c \in 1..max_channel_number |->
                Scatter(Plotted(dfs[c], IlocStep(dfs[c], n)), col, c - 1, panel)]
    IN trace("VMON", 1) \o trace("IMON", 2)

MaxChannelNumber(type) == IF type = "caen" THEN CaenChannels ELSE IsegChannels

\* check_log's call of plot_cean_log, up to fig.show().
PlotCeanLog ==
    /\ pc = "plot"
    /\ module_type \in {"caen", "iseg"}
    /\ \E n \in 1..MaxReduce :
          /\ reduce_factor' = n
          /\ traces' = Figure(df, n, MaxChannelNumber(module_type))
    /\ pc' = "shown"
    /\ UNCHANGED <<module_type, conn, statements, rows, idx, records, diag, df,
                   exc>>

Next ==
    \/ LoadCaen
    \/ LoadIseg
    \/ LoadOther
    \/ CaenStep
    \/ IsegStep
    \/ CaenReturn
    \/ IsegReturn
    \/ ConvertTime
    \/ PlotCeanLog

Spec == Init /\ [][Next]_vars

\* ======================================================= properties
\* What a payload says, read off its parsed value without the decoders.
Parsed(row) == JsonLoads(row.json_data)
IsObject(row) == Parsed(row).ok /\ Parsed(row).val.ty = "dict"
Field(row, key) == Parsed(row).val.map[key]
HasKey(row, key) == key \in DOMAIN Parsed(row).val.map
IsNumber(v) == v.ty \in {"int", "float"}
IsNumericArray(v) == v.ty = "list" /\ \A i \in 1..Len(v.items) : IsNumber(v.items[i])
NumericKeys(keys) == {keys[f] : f \in 1..Len(keys)} \ {"STAT"}
KeySet(keys) == {keys[f] : f \in 1..Len(keys)}
\* Every present key of the family holds what the family expects of it.
PresentKeysValid(row, keys) ==
    /\ IsObject(row)
    /\ \A key \in NumericKeys(keys) :
          HasKey(row, key) => IsNumericArray(Field(row, key))
    /\ ("STAT" \in KeySet(keys) /\ HasKey(row, "STAT")) => Field(row, "STAT").ty = "list"
\* A valid payload of the family: every key present and valid.
ValidPayload(row, keys) ==
    /\ PresentKeysValid(row, keys)
    /\ \A key \in KeySet(keys) : HasKey(row, key)
\* The shortest of the arrays of a valid payload.
ShortestArray(row, keys) ==
    LET lens == {Len(Field(row, key).items) : key \in KeySet(keys)}
    IN CHOOSE m \in lens : \A l \in lens : m <= l
\* A decoded number carries the payload's number as a float.
Carries(cell, v) == cell.ty = "float" /\ cell.n = v.n
\* The records the step being taken appends.
Emitted == SubSeq(records', Len(records) + 1, Len(records'))
\* The row the loop decodes next, when it is about to decode one.
Decoding(type) == pc = "loop" /\ module_type = type /\ idx < Len(rows)
NextRow == rows[idx + 1]
\* The row the loop decoded last, once it has decoded one.
Decoded(type) == module_type = type /\ idx >= 1
LastRow == rows[idx]
\* The run ended inside load_caen or load_iseg, by an exception.
RaisedInLoad == pc = "raised" /\ df = Unbound

\* C1: load_caen, decoding an entry whose payload is a valid caen payload,
\* appends exactly min_len = min(len(VMON), len(IMON), len(VSET), len(ISET),
\* len(STAT)) records stamped with the entry's timestamp, with channels
\* 0..min_len-1 in order, the record of channel i carrying VMON[i], IMON[i],
\* VSET[i], ISET[i] and STAT[i]; longer arrays are truncated and the loop goes
\* on without an exception or a diagnostic.
C1_CaenTruncatesToShortest ==
    [][(Decoding("caen") /\ ValidPayload(NextRow, CaenKeys)) =>
         LET min_len == ShortestArray(NextRow, CaenKeys) IN
         /\ pc' = "loop" /\ exc' = NoExc /\ diag' = diag
         /\ Len(records') = Len(records) + min_len
         /\ SubSeq(records', 1, Len(records)) = records
         /\ \A i \in 0..(min_len - 1) :
               LET rec == Emitted[i + 1] IN
               /\ DOMAIN rec = {"timestamp_utc", "timestamp_jst", "CH", "VMON",
                                "IMON", "VSET", "ISET", "STAT"}
               /\ rec.CH = i
               /\ rec.timestamp_utc = [epoch |-> NextRow.timestamp, utcoffset |-> 0]
               /\ rec.timestamp_jst = [epoch |-> NextRow.timestamp, utcoffset |-> 9 * 3600]
               /\ Carries(rec.VMON, Field(NextRow, "VMON").items[i + 1])
               /\ Carries(rec.IMON, Field(NextRow, "IMON").items[i + 1])
               /\ Carries(rec.VSET, Field(NextRow, "VSET").items[i + 1])
               /\ Carries(rec.ISET, Field(NextRow, "ISET").items[i + 1])
               /\ rec.STAT = Field(NextRow, "STAT").items[i + 1]
      ]_vars

\* C1 witness: load_caen has just decoded a valid payload whose arrays have
\* different lengths and appended a record for it.
C1_Witness ==
    /\ Decoded("caen") /\ pc = "loop"
    /\ ValidPayload(LastRow, CaenKeys)
    /\ Len(Field(LastRow, "IMON").items) < Len(Field(LastRow, "VMON").items)
    /\ ShortestArray(LastRow, CaenKeys) >= 1
    /\ records # <<>>
    /\ records[Len(records)].timestamp_utc.epoch = LastRow.timestamp
    /\ records[Len(records)].CH = ShortestArray(LastRow, CaenKeys) - 1

\* C2: load_iseg, decoding an entry whose payload is a valid iseg payload,
\* appends exactly min(len(Status.voltageMeasure), len(Status.currentMeasure))
\* records stamped with the entry's timestamp, with channels 0..min_len-1,
\* the record of channel i carrying the i-th voltage and the i-th current,
\* and no record has a setpoint or status field.
C2_IsegTruncatesToShortest ==
    [][(Decoding("iseg") /\ ValidPayload(NextRow, IsegKeys)) =>
         LET min_len == ShortestArray(NextRow, IsegKeys) IN
         /\ pc' = "loop" /\ exc' = NoExc /\ diag' = diag
         /\ Len(records') = Len(records) + min_len
         /\ SubSeq(records', 1, Len(records)) = records
         /\ \A i \in 0..(min_len - 1) :
               LET rec == Emitted[i + 1] IN
               /\ DOMAIN rec = {"timestamp_utc", "timestamp_jst", "CH", "VMON",
                                "IMON"}
               /\ rec.CH = i
               /\ rec.timestamp_utc = [epoch |-> NextRow.timestamp, utcoffset |-> 0]
               /\ rec.timestamp_jst = [epoch |-> NextRow.timestamp, utcoffset |-> 9 * 3600]
               /\ Carries(rec.VMON, Field(NextRow, "Status.voltageMeasure").items[i + 1])
               /\ Carries(rec.IMON, Field(NextRow, "Status.currentMeasure").items[i + 1])
      ]_vars

\* C2 witness: load_iseg has just decoded a valid payload with more voltages
\* than currents and appended a record for it.
C2_Witness ==
    /\ Decoded("iseg") /\ pc = "loop"
    /\ ValidPayload(LastRow, IsegKeys)
    /\ Len(Field(LastRow, "Status.currentMeasure").items)
         < Len(Field(LastRow, "Status.voltageMeasure").items)
    /\ ShortestArray(LastRow, IsegKeys) >= 1
    /\ records # <<>>
    /\ records[Len(records)].timestamp_utc.epoch = LastRow.timestamp
    /\ records[Len(records)].CH = ShortestArray(LastRow, IsegKeys) - 1

Keys(type) == IF type = "caen" THEN CaenKeys ELSE IsegKeys
Decode(type, row) ==
    IF type = "caen" THEN CaenDecode(row.timestamp, row.json_data)
    ELSE IsegDecode(row.timestamp, row.json_data)
InvalidJsonRow(row) == ~Parsed(row).ok
WithoutInvalidJson(rs) == SelectSeq(rs, LAMBDA row : ~InvalidJsonRow(row))
Timestamps(rs) == [i \in 1..Len(rs) |-> rs[i].timestamp]

RECURSIVE Table(_, _)
\* The table a decoder of the family makes of the rows rs: its records, and
\* whether it got to the end of rs.
Table(type, rs) ==
    IF rs = <<>> THEN [ok |-> TRUE, records |-> <<>>]
    ELSE LET r == Decode(type, Head(rs))
             rest == Table(type, Tail(rs))
         IN IF r.outcome = "raise" THEN [ok |-> FALSE, records |-> <<>>]
            ELSE [ok |-> rest.ok, records |-> r.records \o rest.records]

\* C3: an entry whose payload is no JSON never ends the decode, adds nothing
\* to the records and prints one diagnostic with its timestamp; the loop
\* goes on, so that the records (and the table returned) are those of the
\* same input without its invalid-JSON entries.
C3_InvalidJsonSkipped ==
    (module_type \in {"caen", "iseg"} /\ pc # "start") =>
        LET done == SubSeq(rows, 1, idx)
            t == Table(module_type, WithoutInvalidJson(done))
        IN /\ diag = Timestamps(SelectSeq(done, InvalidJsonRow))
           /\ RaisedInLoad => (~InvalidJsonRow(LastRow) /\ ~t.ok)
           /\ ~RaisedInLoad => (t.ok /\ records = t.records)
           /\ pc \in {"loaded", "plot", "shown"} =>
                 (done = rows /\ df = DataFrame(t.records))

\* C3 witness: a load returned a table holding the records of the entry
\* before and of the entry after an invalid-JSON entry, whose timestamp is
\* the one diagnostic.
C3_Witness ==
    /\ module_type \in {"caen", "iseg"} /\ pc = "loaded"
    /\ Len(rows) = 3
    /\ InvalidJsonRow(rows[2])
    /\ ValidPayload(rows[1], Keys(module_type))
    /\ ValidPayload(rows[3], Keys(module_type))
    /\ diag = <<rows[2].timestamp>>
    /\ df.rows = Table(module_type, <<rows[1]>>).records
                   \o Table(module_type, <<rows[3]>>).records
    /\ Table(module_type, <<rows[1]>>).records # <<>>
    /\ Table(module_type, <<rows[3]>>).records # <<>>

\* C4 (as claimed): whatever the payload of an entry is, load_caen and
\* load_iseg get to the end of the sequence and return a table: the run is
\* never ended by an exception inside the decode loop.
C4_MalformedNeverAborts == ~RaisedInLoad

StrictlyAscending(rs) ==
    \A i, j \in 1..Len(rs) : i < j => rs[i].timestamp < rs[j].timestamp

C6_UnknownTypeReported ==
    (module_type \notin {"caen", "iseg"} /\ pc # "start") =>
        /\ df = None
        /\ pc \in {"loaded", "raised"}
        /\ traces = <<>>
        /\ pc = "raised" => exc.arg = module_type

\* C7 (as claimed): plot_cean_log with decimation factor N draws, for each
\* channel and in both panels, rows 0, N, 2N, ... of the channel's partition
\* of the table, and leaves the table as load_db returned it.
C7_EveryNthRowRendered ==
    pc = "shown" =>
        /\ df = DataFrame(records)
        /\ Len(traces) = 2 * MaxChannelNumber(module_type)
        /\ \A k \in 1..Len(traces) :
              LET ch == traces[k].name[2]
                  col == traces[k].name[1]
                  shown == IlocStep(SelectSeq(records, LAMBDA r : r.CH = ch),
                                    reduce_factor)
              IN /\ traces[k].x = [m \in 1..Len(shown) |-> shown[m].timestamp_jst]
                 /\ traces[k].y = [m \in 1..Len(shown) |-> shown[m][col]]

\* C8 (as claimed): once control has left load_caen or load_iseg, by return
\* or by exception, exactly one statement, a SELECT, was executed on the
\* connection and the connection is closed.
C8_OneQueryConnectionReleased ==
    (module_type \in {"caen", "iseg"} /\ pc \notin {"start", "loop"}) =>
        /\ statements = <<"SELECT">>
        /\ conn = "closed"

\* C9: decoding a well-formed JSON object that lacks one or more of the
\* expected keys, its present keys being valid, is no error: the entry adds no
\* record and no diagnostic, and the loop goes on.
C9_MissingKeyIsEmptyArray ==
    [][\A type \in {"caen", "iseg"} :
         (/\ Decoding(type)
          /\ PresentKeysValid(NextRow, Keys(type))
          /\ \E key \in KeySet(Keys(type)) : ~HasKey(NextRow, key)) =>
            /\ records' = records
            /\ diag' = diag
            /\ exc' = NoExc
            /\ pc' = "loop"
            /\ idx' = idx + 1
      ]_vars

\* C9 witness: after an entry that lacks exactly one key and added nothing,
\* the loop has decoded the next entry and appended its records.
C9_Witness ==
    /\ module_type \in {"caen", "iseg"} /\ pc = "loop"
    /\ idx = 2
    /\ PresentKeysValid(rows[1], Keys(module_type))
    /\ Cardinality({key \in KeySet(Keys(module_type)) : ~HasKey(rows[1], key)}) = 1
    /\ ValidPayload(rows[2], Keys(module_type))
    /\ diag = <<>>
    /\ records # <<>>
    /\ records = Table(module_type, <<rows[2]>>).records

\* C10 (as claimed): when the store holds no row for the address, the load
\* returns a table with no rows and neither it nor check_log raises.
C10_EmptyInputNoError ==
    (module_type \in {"caen", "iseg"} /\ rows = <<>> /\ pc \notin {"start", "loop"}) =>
        /\ df.kind = "DataFrame"
        /\ df.rows = <<>>
        /\ pc # "raised"
        /\ exc = NoExc

====
